---- MODULE Spec2Model ----
(***************************************************************************)
(* Base-cell topology layer of h3o (src/base_cell.rs): the 122 resolution-0 *)
(* cells, their pentagon classification, the per-face rotation table, the  *)
(* neighbour table and the neighbour rotation table, with the query        *)
(* operations of BaseCell.  A caller builds a BaseCell from an untrusted   *)
(* u8 and then issues queries; every query is a pure lookup.               *)
(***************************************************************************)
EXTENDS Integers, Sequences, FiniteSets, TLC

VARIABLES
    debug_assertions, \* build profile: TRUE when cfg(debug_assertions) is on
    cell,             \* the BaseCell the caller holds, or None before any
    pc,               \* "ready" | "returned" | "panicked"
    call,             \* the last call: [op, arg, ret]
    range,            \* the iterator the caller holds (its 0..count range), or None
    collected         \* the cells that iterator has yielded so far

vars == <<debug_assertions, cell, pc, call, range, collected>>

-----------------------------------------------------------------------------
(* Values *)

None == [tag |-> "None"]
Some(x) == [tag |-> "Some", val |-> x]
Ok(x) == [tag |-> "Ok", val |-> x]
Err(e) == [tag |-> "Err", err |-> e]
Ret(x) == [tag |-> "Ret", val |-> x]
Panic(m) == [tag |-> "Panic", msg |-> m]

\* Result::ok
ok(r) == IF r.tag = "Ok" THEN Some(r.val) ELSE None

\* Largest value of the u8 handed to try_from.
U8_MAX == 255
U8 == 0..U8_MAX

\* Direction and Face are primitives of the crate, used here by their
\* ordinal: Center=0, K=1, J=2, JK=3, I=4, IK=5, IJ=6; faces 0..19.
NUM_DIRECTIONS == 7
NUM_FACES == 20
Directions == 0..(NUM_DIRECTIONS - 1)
Center == 0
K == 1
J == 2
JK == 3
I == 4
IK == 5
IJ == 6
Faces == 0..(NUM_FACES - 1)

-----------------------------------------------------------------------------
(* Fixed-width integers.  A u128 is its eight 16-bit groups, a u64 of the  *)
(* rotation table its leading 4-bit group and twenty 3-bit groups, both    *)
(* most significant group first, as the literals are written.              *)

Bit(x, i) == (x \div (2 ^ i)) % 2

RECURSIVE BitAnd(_, _, _)
BitAnd(a, b, n) ==
    IF n = 0 THEN 0
    ELSE Bit(a, n - 1) * Bit(b, n - 1) * (2 ^ (n - 1)) + BitAnd(a, b, n - 1)

ZERO_U128 == [k \in 1..8 |-> 0]
\* 1_u128 << n, for n < 128
Shl1_U128(n) == [k \in 1..8 |-> IF 8 - k = n \div 16 THEN 2 ^ (n % 16) ELSE 0]
And_U128(a, b) == [k \in 1..8 |-> BitAnd(a[k], b[k], 16)]

\* x - 1 (x > 0): the lowest non-zero group gives up one, the groups below
\* it fill with ones
Sub1_U128(x) ==
    LET low == CHOOSE k \in 1..8 : x[k] # 0 /\ \A j \in (k + 1)..8 : x[j] = 0
    IN  [k \in 1..8 |-> IF k < low THEN x[k]
                        ELSE IF k = low THEN x[k] - 1
                        ELSE (2 ^ 16) - 1]

RECURSIVE Ones(_, _)
Ones(a, n) == IF n = 0 THEN 0 ELSE Bit(a, n - 1) + Ones(a, n - 1)
\* u128::count_ones
count_ones(x) ==
    Ones(x[1], 16) + Ones(x[2], 16) + Ones(x[3], 16) + Ones(x[4], 16)
        + Ones(x[5], 16) + Ones(x[6], 16) + Ones(x[7], 16) + Ones(x[8], 16)

\* bit i of a rotation-table word
U64Bit(x, i) ==
    IF i >= 64 THEN 0
    ELSE IF i >= 60 THEN Bit(x[1], i - 60)
    ELSE Bit(x[21 - (i \div 3)], i % 3)
\* (x >> shift) & 0b111
ShrAnd7_U64(x, shift) ==
    U64Bit(x, shift) + 2 * U64Bit(x, shift + 1) + 4 * U64Bit(x, shift + 2)

-----------------------------------------------------------------------------
(* Constants and tables *)

MAX == 121

BASE_PENTAGONS ==
    <<\h0020, \h0802, \h0008, \h0100, \h8402, \h0040, \h0100, \h4010>>

\* struct BaseCell(u8)
Self(value) == [v0 |-> value]
u8_from(c) == c.v0
usize_from(c) == c.v0

\* variant: the number of cells taken to be MAX
count_is_max == MAX

count == MAX + 1

BASE_CELL_ROTATIONS == <<
    \* face 19  18  17  16  15  14  13  12  11  10  9  8  7  6  5  4  3  2  1  0
    <<\b1111, \b111, \b111, \b111, \b111, \b111, \b111, \b111, \b111, \b111, \b111, \b111, \b111, \b111, \b111, \b111, \b111, \b111, \b001, \b000, \b101>>,
    <<\b1111, \b111, \b111, \b111, \b111, \b111, \b111, \b111, \b111, \b111, \b111, \b111, \b111, \b111, \b111, \b111, \b111, \b111, \b000, \b101, \b111>>,
    <<\b1111, \b111, \b111, \b111, \b111, \b111, \b111, \b111, \b111, \b111, \b111, \b111, \b111, \b111, \b011, \b111, \b111, \b111, \b001, \b000, \b101>>,
    <<\b1111, \b111, \b111, \b111, \b111, \b111, \b111, \b111, \b111, \b111, \b111, \b111, \b111, \b111, \b111, \b111, \b111, \b001, \b000, \b101, \b111>>,
    <<\b1111, \b111, \b111, \b111, \b111, \b111, \b111, \b111, \b111, \b111, \b111, \b111, \b111, \b111, \b111, \b111, \b100, \b011, \b010, \b001, \b000>>,
    <<\b1111, \b111, \b111, \b111, \b111, \b111, \b111, \b111, \b111, \b111, \b111, \b111, \b111, \b111, \b111, \b111, \b111, \b111, \b111, \b000, \b101>>,
    <<\b1111, \b111, \b111, \b111, \b111, \b111, \b111, \b111, \b111, \b111, \b111, \b111, \b111, \b111, \b011, \b111, \b111, \b111, \b001, \b000, \b111>>,
    <<\b1111, \b111, \b111, \b111, \b111, \b111, \b111, \b111, \b111, \b111, \b111, \b111, \b111, \b011, \b111, \b111, \b111, \b001, \b000, \b101, \b111>>,
    <<\b1111, \b111, \b111, \b111, \b111, \b111, \b111, \b111, \b111, \b111, \b111, \b111, \b111, \b111, \b111, \b111, \b101, \b111, \b111, \b001, \b000>>,
    <<\b1111, \b111, \b111, \b111, \b111, \b111, \b111, \b111, \b111, \b111, \b111, \b111, \b111, \b011, \b111, \b111, \b111, \b111, \b000, \b101, \b111>>,
    <<\b1111, \b111, \b111, \b111, \b111, \b111, \b111, \b111, \b111, \b111, \b111, \b111, \b111, \b111, \b011, \b111, \b111, \b111, \b111, \b000, \b101>>,
    <<\b1111, \b111, \b111, \b111, \b111, \b111, \b111, \b111, \b111, \b111, \b111, \b111, \b111, \b111, \b011, \b111, \b111, \b111, \b111, \b000, \b111>>,
    <<\b1111, \b111, \b111, \b111, \b111, \b111, \b111, \b111, \b111, \b111, \b111, \b111, \b111, \b111, \b111, \b111, \b001, \b000, \b101, \b111, \b111>>,
    <<\b1111, \b111, \b111, \b111, \b111, \b111, \b111, \b111, \b111, \b111, \b111, \b111, \b111, \b111, \b111, \b111, \b111, \b000, \b101, \b111, \b111>>,
    <<\b1111, \b111, \b111, \b111, \b111, \b111, \b111, \b111, \b111, \b000, \b111, \b111, \b111, \b011, \b011, \b111, \b111, \b111, \b001, \b000, \b111>>,
    <<\b1111, \b111, \b111, \b111, \b111, \b111, \b111, \b111, \b111, \b111, \b111, \b111, \b111, \b111, \b111, \b111, \b000, \b101, \b111, \b111, \b001>>,
    <<\b1111, \b111, \b111, \b111, \b111, \b111, \b111, \b111, \b111, \b111, \b111, \b111, \b111, \b111, \b111, \b011, \b101, \b111, \b111, \b001, \b000>>,
    <<\b1111, \b111, \b111, \b111, \b111, \b111, \b111, \b111, \b111, \b011, \b111, \b111, \b111, \b111, \b000, \b111, \b111, \b111, \b111, \b011, \b111>>,
    <<\b1111, \b111, \b111, \b111, \b111, \b111, \b111, \b111, \b111, \b111, \b111, \b111, \b111, \b111, \b111, \b011, \b111, \b111, \b111, \b001, \b000>>,
    <<\b1111, \b111, \b111, \b111, \b111, \b111, \b111, \b111, \b111, \b111, \b111, \b111, \b111, \b011, \b111, \b111, \b111, \b111, \b000, \b111, \b111>>,
    <<\b1111, \b111, \b111, \b111, \b111, \b111, \b111, \b111, \b111, \b011, \b111, \b111, \b111, \b000, \b111, \b111, \b111, \b111, \b011, \b111, \b111>>,
    <<\b1111, \b111, \b111, \b111, \b111, \b111, \b111, \b111, \b111, \b111, \b111, \b111, \b111, \b011, \b111, \b111, \b111, \b001, \b000, \b111, \b111>>,
    <<\b1111, \b111, \b111, \b111, \b111, \b111, \b111, \b111, \b111, \b111, \b111, \b111, \b111, \b111, \b111, \b111, \b101, \b111, \b111, \b111, \b000>>,
    <<\b1111, \b111, \b111, \b111, \b111, \b111, \b111, \b111, \b111, \b111, \b011, \b111, \b111, \b111, \b000, \b111, \b111, \b111, \b111, \b011, \b111>>,
    <<\b1111, \b111, \b111, \b111, \b111, \b111, \b111, \b111, \b111, \b111, \b000, \b111, \b111, \b111, \b011, \b011, \b111, \b111, \b111, \b001, \b000>>,
    <<\b1111, \b111, \b111, \b111, \b111, \b111, \b111, \b111, \b111, \b011, \b011, \b111, \b111, \b111, \b000, \b111, \b111, \b111, \b111, \b011, \b111>>,
    <<\b1111, \b111, \b111, \b111, \b111, \b111, \b111, \b111, \b111, \b111, \b111, \b111, \b011, \b111, \b111, \b111, \b001, \b000, \b101, \b111, \b111>>,
    <<\b1111, \b111, \b111, \b111, \b111, \b111, \b111, \b111, \b111, \b000, \b111, \b111, \b111, \b011, \b011, \b111, \b111, \b111, \b111, \b111, \b111>>,
    <<\b1111, \b111, \b111, \b111, \b111, \b111, \b111, \b111, \b111, \b111, \b111, \b111, \b111, \b111, \b111, \b111, \b000, \b101, \b111, \b111, \b111>>,
    <<\b1111, \b111, \b111, \b111, \b111, \b111, \b111, \b111, \b111, \b111, \b111, \b111, \b011, \b111, \b111, \b111, \b111, \b000, \b101, \b111, \b111>>,
    <<\b1111, \b111, \b111, \b111, \b111, \b111, \b111, \b111, \b111, \b111, \b111, \b111, \b111, \b111, \b111, \b011, \b111, \b111, \b111, \b111, \b000>>,
    <<\b1111, \b111, \b111, \b111, \b111, \b111, \b111, \b111, \b111, \b111, \b111, \b011, \b111, \b111, \b111, \b111, \b000, \b101, \b111, \b111, \b001>>,
    <<\b1111, \b111, \b111, \b111, \b111, \b111, \b111, \b111, \b111, \b111, \b011, \b111, \b111, \b111, \b111, \b000, \b111, \b111, \b111, \b111, \b011>>,
    <<\b1111, \b111, \b111, \b111, \b111, \b111, \b111, \b111, \b111, \b111, \b111, \b111, \b111, \b111, \b111, \b011, \b101, \b111, \b111, \b111, \b000>>,
    <<\b1111, \b111, \b111, \b111, \b111, \b111, \b111, \b111, \b011, \b111, \b111, \b111, \b111, \b000, \b111, \b111, \b111, \b111, \b011, \b111, \b111>>,
    <<\b1111, \b111, \b111, \b111, \b111, \b111, \b111, \b111, \b111, \b000, \b111, \b111, \b111, \b111, \b011, \b111, \b111, \b111, \b111, \b111, \b111>>,
    <<\b1111, \b111, \b111, \b111, \b111, \b111, \b111, \b111, \b011, \b011, \b111, \b111, \b111, \b000, \b111, \b111, \b111, \b111, \b011, \b111, \b111>>,
    <<\b1111, \b111, \b111, \b111, \b111, \b111, \b111, \b111, \b111, \b111, \b000, \b111, \b111, \b111, \b011, \b011, \b111, \b111, \b111, \b111, \b111>>,
    <<\b1111, \b111, \b111, \b111, \b111, \b111, \b111, \b111, \b000, \b111, \b111, \b111, \b011, \b011, \b111, \b111, \b111, \b001, \b000, \b111, \b111>>,
    <<\b1111, \b111, \b111, \b111, \b111, \b111, \b111, \b111, \b111, \b111, \b011, \b111, \b111, \b111, \b000, \b111, \b111, \b111, \b111, \b111, \b111>>,
    <<\b1111, \b111, \b111, \b111, \b111, \b111, \b111, \b111, \b111, \b011, \b111, \b111, \b111, \b000, \b111, \b111, \b111, \b111, \b111, \b111, \b111>>,
    <<\b1111, \b111, \b111, \b111, \b111, \b111, \b111, \b111, \b111, \b111, \b111, \b011, \b111, \b111, \b111, \b111, \b000, \b111, \b111, \b111, \b001>>,
    <<\b1111, \b111, \b111, \b111, \b111, \b111, \b111, \b111, \b111, \b111, \b111, \b111, \b011, \b111, \b111, \b111, \b001, \b000, \b111, \b111, \b111>>,
    <<\b1111, \b111, \b111, \b111, \b111, \b111, \b111, \b111, \b111, \b111, \b111, \b111, \b011, \b111, \b111, \b111, \b111, \b000, \b111, \b111, \b111>>,
    <<\b1111, \b111, \b111, \b111, \b111, \b111, \b111, \b111, \b111, \b111, \b111, \b011, \b111, \b111, \b111, \b111, \b000, \b101, \b111, \b111, \b111>>,
    <<\b1111, \b111, \b111, \b111, \b111, \b111, \b111, \b111, \b111, \b011, \b011, \b111, \b111, \b111, \b000, \b111, \b111, \b111, \b111, \b111, \b111>>,
    <<\b1111, \b111, \b111, \b111, \b011, \b111, \b111, \b111, \b111, \b000, \b111, \b111, \b111, \b011, \b011, \b111, \b111, \b111, \b111, \b111, \b111>>,
    <<\b1111, \b111, \b111, \b111, \b111, \b111, \b111, \b111, \b011, \b111, \b111, \b111, \b000, \b111, \b111, \b111, \b111, \b011, \b111, \b111, \b111>>,
    <<\b1111, \b111, \b111, \b111, \b111, \b111, \b011, \b111, \b111, \b111, \b111, \b111, \b111, \b111, \b111, \b000, \b111, \b111, \b111, \b111, \b011>>,
    <<\b1111, \b111, \b111, \b111, \b111, \b111, \b000, \b111, \b111, \b111, \b111, \b011, \b111, \b111, \b111, \b011, \b000, \b111, \b111, \b111, \b001>>,
    <<\b1111, \b111, \b111, \b111, \b111, \b111, \b011, \b111, \b111, \b111, \b011, \b111, \b111, \b111, \b111, \b000, \b111, \b111, \b111, \b111, \b011>>,
    <<\b1111, \b111, \b111, \b111, \b111, \b111, \b111, \b111, \b000, \b111, \b111, \b111, \b011, \b011, \b111, \b111, \b111, \b111, \b111, \b111, \b111>>,
    <<\b1111, \b111, \b111, \b111, \b111, \b111, \b111, \b111, \b111, \b111, \b000, \b111, \b111, \b111, \b111, \b011, \b111, \b111, \b111, \b111, \b111>>,
    <<\b1111, \b111, \b111, \b111, \b111, \b111, \b111, \b111, \b111, \b111, \b111, \b011, \b111, \b111, \b111, \b111, \b000, \b111, \b111, \b111, \b111>>,
    <<\b1111, \b111, \b111, \b111, \b111, \b111, \b111, \b111, \b000, \b111, \b111, \b111, \b111, \b011, \b111, \b111, \b111, \b111, \b111, \b111, \b111>>,
    <<\b1111, \b111, \b111, \b111, \b111, \b111, \b111, \b111, \b011, \b011, \b111, \b111, \b111, \b000, \b111, \b111, \b111, \b111, \b111, \b111, \b111>>,
    <<\b1111, \b111, \b111, \b111, \b011, \b111, \b111, \b111, \b111, \b000, \b111, \b111, \b111, \b111, \b011, \b111, \b111, \b111, \b111, \b111, \b111>>,
    <<\b1111, \b111, \b111, \b111, \b111, \b011, \b111, \b111, \b111, \b111, \b000, \b111, \b111, \b111, \b011, \b001, \b111, \b111, \b111, \b111, \b111>>,
    <<\b1111, \b111, \b111, \b111, \b111, \b111, \b111, \b000, \b111, \b111, \b111, \b011, \b011, \b111, \b111, \b111, \b001, \b000, \b111, \b111, \b111>>,
    <<\b1111, \b111, \b111, \b111, \b111, \b011, \b111, \b111, \b111, \b111, \b000, \b111, \b111, \b111, \b011, \b111, \b111, \b111, \b111, \b111, \b111>>,
    <<\b1111, \b111, \b111, \b111, \b011, \b111, \b111, \b111, \b111, \b000, \b111, \b111, \b111, \b011, \b111, \b111, \b111, \b111, \b111, \b111, \b111>>,
    <<\b1111, \b111, \b111, \b111, \b111, \b111, \b011, \b111, \b111, \b111, \b111, \b000, \b111, \b111, \b111, \b111, \b011, \b111, \b111, \b111, \b111>>,
    <<\b1111, \b111, \b111, \b111, \b111, \b111, \b111, \b011, \b111, \b111, \b111, \b111, \b000, \b111, \b111, \b111, \b111, \b011, \b111, \b111, \b111>>,
    <<\b1111, \b111, \b111, \b111, \b000, \b001, \b111, \b111, \b111, \b011, \b011, \b111, \b111, \b111, \b000, \b111, \b111, \b111, \b111, \b111, \b111>>,
    <<\b1111, \b111, \b111, \b111, \b111, \b111, \b111, \b011, \b011, \b111, \b111, \b111, \b000, \b111, \b111, \b111, \b111, \b011, \b111, \b111, \b111>>,
    <<\b1111, \b111, \b111, \b111, \b111, \b111, \b111, \b011, \b111, \b111, \b111, \b000, \b111, \b111, \b111, \b111, \b011, \b111, \b111, \b111, \b111>>,
    <<\b1111, \b111, \b111, \b111, \b111, \b111, \b000, \b111, \b111, \b111, \b111, \b011, \b111, \b111, \b111, \b011, \b111, \b111, \b111, \b111, \b111>>,
    <<\b1111, \b111, \b111, \b111, \b111, \b111, \b011, \b111, \b111, \b111, \b111, \b111, \b111, \b111, \b111, \b000, \b111, \b111, \b111, \b111, \b111>>,
    <<\b1111, \b111, \b111, \b111, \b000, \b111, \b111, \b111, \b111, \b011, \b111, \b111, \b111, \b111, \b111, \b111, \b111, \b111, \b111, \b111, \b111>>,
    <<\b1111, \b111, \b111, \b111, \b111, \b111, \b111, \b111, \b011, \b111, \b111, \b111, \b000, \b111, \b111, \b111, \b111, \b111, \b111, \b111, \b111>>,
    <<\b1111, \b111, \b111, \b111, \b111, \b111, \b011, \b111, \b111, \b111, \b011, \b111, \b111, \b111, \b111, \b000, \b111, \b111, \b111, \b111, \b111>>,
    <<\b1111, \b111, \b111, \b011, \b111, \b111, \b111, \b111, \b000, \b111, \b111, \b111, \b011, \b011, \b111, \b111, \b111, \b111, \b111, \b111, \b111>>,
    <<\b1111, \b111, \b111, \b000, \b001, \b111, \b111, \b111, \b011, \b011, \b111, \b111, \b111, \b000, \b111, \b111, \b111, \b111, \b111, \b111, \b111>>,
    <<\b1111, \b111, \b111, \b011, \b111, \b111, \b111, \b111, \b000, \b111, \b111, \b111, \b111, \b011, \b111, \b111, \b111, \b111, \b111, \b111, \b111>>,
    <<\b1111, \b111, \b111, \b111, \b111, \b011, \b111, \b111, \b111, \b111, \b000, \b111, \b111, \b111, \b111, \b011, \b111, \b111, \b111, \b111, \b111>>,
    <<\b1111, \b111, \b111, \b111, \b111, \b111, \b011, \b011, \b111, \b111, \b111, \b000, \b111, \b111, \b111, \b111, \b011, \b111, \b111, \b111, \b111>>,
    <<\b1111, \b111, \b111, \b111, \b111, \b111, \b111, \b000, \b111, \b111, \b111, \b011, \b011, \b111, \b111, \b111, \b111, \b111, \b111, \b111, \b111>>,
    <<\b1111, \b111, \b111, \b111, \b000, \b001, \b111, \b111, \b111, \b011, \b111, \b111, \b111, \b111, \b111, \b111, \b111, \b111, \b111, \b111, \b111>>,
    <<\b1111, \b111, \b111, \b111, \b111, \b000, \b111, \b111, \b111, \b111, \b011, \b111, \b111, \b111, \b111, \b111, \b111, \b111, \b111, \b111, \b111>>,
    <<\b1111, \b111, \b111, \b111, \b101, \b000, \b111, \b111, \b111, \b111, \b011, \b111, \b111, \b111, \b111, \b111, \b111, \b111, \b111, \b111, \b111>>,
    <<\b1111, \b111, \b111, \b101, \b000, \b111, \b111, \b111, \b111, \b011, \b111, \b111, \b111, \b111, \b111, \b111, \b111, \b111, \b111, \b111, \b111>>,
    <<\b1111, \b111, \b111, \b111, \b111, \b111, \b000, \b111, \b111, \b111, \b111, \b011, \b111, \b111, \b111, \b111, \b111, \b111, \b111, \b111, \b111>>,
    <<\b1111, \b111, \b111, \b111, \b111, \b111, \b111, \b000, \b111, \b111, \b111, \b111, \b011, \b111, \b111, \b111, \b111, \b111, \b111, \b111, \b111>>,
    <<\b1111, \b001, \b111, \b111, \b111, \b000, \b011, \b111, \b111, \b111, \b011, \b111, \b111, \b111, \b111, \b000, \b111, \b111, \b111, \b111, \b111>>,
    <<\b1111, \b111, \b111, \b111, \b111, \b111, \b111, \b011, \b011, \b111, \b111, \b111, \b000, \b111, \b111, \b111, \b111, \b111, \b111, \b111, \b111>>,
    <<\b1111, \b011, \b111, \b111, \b111, \b111, \b000, \b111, \b111, \b111, \b111, \b011, \b111, \b111, \b111, \b011, \b111, \b111, \b111, \b111, \b111>>,
    <<\b1111, \b111, \b111, \b111, \b111, \b111, \b111, \b011, \b111, \b111, \b111, \b000, \b111, \b111, \b111, \b111, \b111, \b111, \b111, \b111, \b111>>,
    <<\b1111, \b011, \b111, \b111, \b111, \b111, \b000, \b111, \b111, \b111, \b111, \b111, \b111, \b111, \b111, \b011, \b111, \b111, \b111, \b111, \b111>>,
    <<\b1111, \b111, \b111, \b000, \b001, \b111, \b111, \b111, \b011, \b111, \b111, \b111, \b111, \b111, \b111, \b111, \b111, \b111, \b111, \b111, \b111>>,
    <<\b1111, \b111, \b111, \b011, \b111, \b111, \b111, \b111, \b000, \b111, \b111, \b111, \b011, \b111, \b111, \b111, \b111, \b111, \b111, \b111, \b111>>,
    <<\b1111, \b111, \b111, \b101, \b000, \b001, \b111, \b111, \b111, \b011, \b111, \b111, \b111, \b111, \b111, \b111, \b111, \b111, \b111, \b111, \b111>>,
    <<\b1111, \b111, \b111, \b000, \b111, \b111, \b111, \b111, \b011, \b111, \b111, \b111, \b111, \b111, \b111, \b111, \b111, \b111, \b111, \b111, \b111>>,
    <<\b1111, \b001, \b111, \b111, \b111, \b000, \b111, \b111, \b111, \b111, \b011, \b111, \b111, \b111, \b111, \b111, \b111, \b111, \b111, \b111, \b111>>,
    <<\b1111, \b111, \b111, \b111, \b000, \b001, \b111, \b111, \b111, \b111, \b111, \b111, \b111, \b111, \b111, \b111, \b111, \b111, \b111, \b111, \b111>>,
    <<\b1111, \b111, \b111, \b111, \b111, \b111, \b011, \b011, \b111, \b111, \b111, \b000, \b111, \b111, \b111, \b111, \b111, \b111, \b111, \b111, \b111>>,
    <<\b1111, \b001, \b111, \b111, \b101, \b000, \b111, \b111, \b111, \b111, \b011, \b111, \b111, \b111, \b111, \b111, \b111, \b111, \b111, \b111, \b111>>,
    <<\b1111, \b111, \b011, \b111, \b111, \b111, \b111, \b000, \b111, \b111, \b111, \b011, \b011, \b111, \b111, \b111, \b111, \b111, \b111, \b111, \b111>>,
    <<\b1111, \b111, \b000, \b001, \b111, \b111, \b111, \b011, \b011, \b111, \b111, \b111, \b000, \b111, \b111, \b111, \b111, \b111, \b111, \b111, \b111>>,
    <<\b1111, \b111, \b011, \b111, \b111, \b111, \b111, \b000, \b111, \b111, \b111, \b111, \b011, \b111, \b111, \b111, \b111, \b111, \b111, \b111, \b111>>,
    <<\b1111, \b111, \b111, \b000, \b001, \b111, \b111, \b111, \b111, \b111, \b111, \b111, \b111, \b111, \b111, \b111, \b111, \b111, \b111, \b111, \b111>>,
    <<\b1111, \b000, \b111, \b111, \b111, \b101, \b011, \b111, \b111, \b111, \b111, \b111, \b111, \b111, \b111, \b111, \b111, \b111, \b111, \b111, \b111>>,
    <<\b1111, \b011, \b111, \b111, \b111, \b111, \b000, \b111, \b111, \b111, \b111, \b011, \b111, \b111, \b111, \b111, \b111, \b111, \b111, \b111, \b111>>,
    <<\b1111, \b000, \b111, \b111, \b111, \b111, \b011, \b111, \b111, \b111, \b111, \b111, \b111, \b111, \b111, \b111, \b111, \b111, \b111, \b111, \b111>>,
    <<\b1111, \b111, \b101, \b000, \b111, \b111, \b111, \b111, \b011, \b111, \b111, \b111, \b111, \b111, \b111, \b111, \b111, \b111, \b111, \b111, \b111>>,
    <<\b1111, \b111, \b011, \b111, \b111, \b111, \b111, \b000, \b111, \b111, \b111, \b011, \b111, \b111, \b111, \b111, \b111, \b111, \b111, \b111, \b111>>,
    <<\b1111, \b111, \b101, \b000, \b001, \b111, \b111, \b111, \b011, \b111, \b111, \b111, \b111, \b111, \b111, \b111, \b111, \b111, \b111, \b111, \b111>>,
    <<\b1111, \b111, \b111, \b101, \b000, \b001, \b111, \b111, \b111, \b111, \b111, \b111, \b111, \b111, \b111, \b111, \b111, \b111, \b111, \b111, \b111>>,
    <<\b1111, \b000, \b001, \b111, \b111, \b111, \b011, \b011, \b111, \b111, \b111, \b000, \b111, \b111, \b111, \b111, \b111, \b111, \b111, \b111, \b111>>,
    <<\b1111, \b001, \b111, \b111, \b111, \b000, \b111, \b111, \b111, \b111, \b111, \b111, \b111, \b111, \b111, \b111, \b111, \b111, \b111, \b111, \b111>>,
    <<\b1111, \b001, \b111, \b111, \b101, \b000, \b111, \b111, \b111, \b111, \b111, \b111, \b111, \b111, \b111, \b111, \b111, \b111, \b111, \b111, \b111>>,
    <<\b1111, \b111, \b000, \b111, \b111, \b111, \b111, \b011, \b111, \b111, \b111, \b111, \b111, \b111, \b111, \b111, \b111, \b111, \b111, \b111, \b111>>,
    <<\b1111, \b111, \b000, \b001, \b111, \b111, \b111, \b011, \b111, \b111, \b111, \b111, \b111, \b111, \b111, \b111, \b111, \b111, \b111, \b111, \b111>>,
    <<\b1111, \b000, \b001, \b111, \b111, \b111, \b011, \b111, \b111, \b111, \b111, \b111, \b111, \b111, \b111, \b111, \b111, \b111, \b111, \b111, \b111>>,
    <<\b1111, \b111, \b101, \b000, \b001, \b111, \b111, \b111, \b111, \b111, \b111, \b111, \b111, \b111, \b111, \b111, \b111, \b111, \b111, \b111, \b111>>,
    <<\b1111, \b000, \b001, \b111, \b111, \b101, \b011, \b111, \b111, \b111, \b111, \b111, \b111, \b111, \b111, \b111, \b111, \b111, \b111, \b111, \b111>>,
    <<\b1111, \b101, \b000, \b111, \b111, \b111, \b111, \b011, \b111, \b111, \b111, \b111, \b111, \b111, \b111, \b111, \b111, \b111, \b111, \b111, \b111>>,
    <<\b1111, \b111, \b000, \b001, \b111, \b111, \b111, \b111, \b111, \b111, \b111, \b111, \b111, \b111, \b111, \b111, \b111, \b111, \b111, \b111, \b111>>,
    <<\b1111, \b000, \b001, \b010, \b011, \b100, \b111, \b111, \b111, \b111, \b111, \b111, \b111, \b111, \b111, \b111, \b111, \b111, \b111, \b111, \b111>>,
    <<\b1111, \b000, \b001, \b111, \b111, \b101, \b111, \b111, \b111, \b111, \b111, \b111, \b111, \b111, \b111, \b111, \b111, \b111, \b111, \b111, \b111>>,
    <<\b1111, \b101, \b000, \b001, \b111, \b111, \b111, \b011, \b111, \b111, \b111, \b111, \b111, \b111, \b111, \b111, \b111, \b111, \b111, \b111, \b111>>,
    <<\b1111, \b000, \b001, \b111, \b111, \b111, \b111, \b111, \b111, \b111, \b111, \b111, \b111, \b111, \b111, \b111, \b111, \b111, \b111, \b111, \b111>>,
    <<\b1111, \b101, \b000, \b001, \b111, \b111, \b111, \b111, \b111, \b111, \b111, \b111, \b111, \b111, \b111, \b111, \b111, \b111, \b111, \b111, \b111>>
>>

metadata(home, coord) ==
    [home |-> home, coord |-> coord, cw_offset_pent |-> None]
metadata_cw(home, coord, offset1, offset2) ==
    [home |-> home, coord |-> coord, cw_offset_pent |-> Some(<<offset1, offset2>>)]

METADATA == <<
    metadata(1, <<1, 0, 0>>),
    metadata(2, <<1, 1, 0>>),
    metadata(1, <<0, 0, 0>>),
    metadata(2, <<1, 0, 0>>),
    metadata(0, <<2, 0, 0>>),
    metadata(1, <<1, 1, 0>>),
    metadata(1, <<0, 0, 1>>),
    metadata(2, <<0, 0, 0>>),
    metadata(0, <<1, 0, 0>>),
    metadata(2, <<0, 1, 0>>),
    metadata(1, <<0, 1, 0>>),
    metadata(1, <<0, 1, 1>>),
    metadata(3, <<1, 0, 0>>),
    metadata(3, <<1, 1, 0>>),
    metadata_cw(11, <<2, 0, 0>>, 2, 6),
    metadata(4, <<1, 0, 0>>),
    metadata(0, <<0, 0, 0>>),
    metadata(6, <<0, 1, 0>>),
    metadata(0, <<0, 0, 1>>),
    metadata(2, <<0, 1, 1>>),
    metadata(7, <<0, 0, 1>>),
    metadata(2, <<0, 0, 1>>),
    metadata(0, <<1, 1, 0>>),
    metadata(6, <<0, 0, 1>>),
    metadata_cw(10, <<2, 0, 0>>, 1, 5),
    metadata(6, <<0, 0, 0>>),
    metadata(3, <<0, 0, 0>>),
    metadata(11, <<1, 0, 0>>),
    metadata(4, <<1, 1, 0>>),
    metadata(3, <<0, 1, 0>>),
    metadata(0, <<0, 1, 1>>),
    metadata(4, <<0, 0, 0>>),
    metadata(5, <<0, 1, 0>>),
    metadata(0, <<0, 1, 0>>),
    metadata(7, <<0, 1, 0>>),
    metadata(11, <<1, 1, 0>>),
    metadata(7, <<0, 0, 0>>),
    metadata(10, <<1, 0, 0>>),
    metadata_cw(12, <<2, 0, 0>>, 3, 7),
    metadata(6, <<1, 0, 1>>),
    metadata(7, <<1, 0, 1>>),
    metadata(4, <<0, 0, 1>>),
    metadata(3, <<0, 0, 1>>),
    metadata(3, <<0, 1, 1>>),
    metadata(4, <<0, 1, 0>>),
    metadata(6, <<1, 0, 0>>),
    metadata(11, <<0, 0, 0>>),
    metadata(8, <<0, 0, 1>>),
    metadata(5, <<0, 0, 1>>),
    metadata_cw(14, <<2, 0, 0>>, 0, 9),
    metadata(5, <<0, 0, 0>>),
    metadata(12, <<1, 0, 0>>),
    metadata(10, <<1, 1, 0>>),
    metadata(4, <<0, 1, 1>>),
    metadata(12, <<1, 1, 0>>),
    metadata(7, <<1, 0, 0>>),
    metadata(11, <<0, 1, 0>>),
    metadata(10, <<0, 0, 0>>),
    metadata_cw(13, <<2, 0, 0>>, 4, 8),
    metadata(10, <<0, 0, 1>>),
    metadata(11, <<0, 0, 1>>),
    metadata(9, <<0, 1, 0>>),
    metadata(8, <<0, 1, 0>>),
    metadata_cw(6, <<2, 0, 0>>, 11, 15),
    metadata(8, <<0, 0, 0>>),
    metadata(9, <<0, 0, 1>>),
    metadata(14, <<1, 0, 0>>),
    metadata(5, <<1, 0, 1>>),
    metadata(16, <<0, 1, 1>>),
    metadata(8, <<1, 0, 1>>),
    metadata(5, <<1, 0, 0>>),
    metadata(12, <<0, 0, 0>>),
    metadata_cw(7, <<2, 0, 0>>, 12, 16),
    metadata(12, <<0, 1, 0>>),
    metadata(10, <<0, 1, 0>>),
    metadata(9, <<0, 0, 0>>),
    metadata(13, <<1, 0, 0>>),
    metadata(16, <<0, 0, 1>>),
    metadata(15, <<0, 1, 1>>),
    metadata(15, <<0, 1, 0>>),
    metadata(16, <<0, 1, 0>>),
    metadata(14, <<1, 1, 0>>),
    metadata(13, <<1, 1, 0>>),
    metadata_cw(5, <<2, 0, 0>>, 10, 19),
    metadata(8, <<1, 0, 0>>),
    metadata(14, <<0, 0, 0>>),
    metadata(9, <<1, 0, 1>>),
    metadata(14, <<0, 0, 1>>),
    metadata(17, <<0, 0, 1>>),
    metadata(12, <<0, 0, 1>>),
    metadata(16, <<0, 0, 0>>),
    metadata(17, <<0, 1, 1>>),
    metadata(15, <<0, 0, 1>>),
    metadata(16, <<1, 0, 1>>),
    metadata(9, <<1, 0, 0>>),
    metadata(15, <<0, 0, 0>>),
    metadata(13, <<0, 0, 0>>),
    metadata_cw(8, <<2, 0, 0>>, 13, 17),
    metadata(13, <<0, 1, 0>>),
    metadata(17, <<1, 0, 1>>),
    metadata(19, <<0, 1, 0>>),
    metadata(14, <<0, 1, 0>>),
    metadata(19, <<0, 1, 1>>),
    metadata(17, <<0, 1, 0>>),
    metadata(13, <<0, 0, 1>>),
    metadata(17, <<0, 0, 0>>),
    metadata(16, <<1, 0, 0>>),
    metadata_cw(9, <<2, 0, 0>>, 14, 18),
    metadata(15, <<1, 0, 1>>),
    metadata(15, <<1, 0, 0>>),
    metadata(18, <<0, 1, 1>>),
    metadata(18, <<0, 0, 1>>),
    metadata(19, <<0, 0, 1>>),
    metadata(17, <<1, 0, 0>>),
    metadata(19, <<0, 0, 0>>),
    metadata(18, <<0, 1, 0>>),
    metadata(18, <<1, 0, 1>>),
    metadata(19, <<2, 0, 0>>),
    metadata(19, <<1, 0, 0>>),
    metadata(18, <<0, 0, 0>>),
    metadata(19, <<1, 0, 1>>),
    metadata(18, <<1, 0, 0>>)
>>

PENTAGON_DIRECTION_FACES == <<
    << 4,  0,  2,  1,  3>>,
    << 6, 11,  2,  7,  1>>,
    << 5, 10,  1,  6,  0>>,
    << 7, 12,  3,  8,  2>>,
    << 9, 14,  0,  5,  4>>,
    << 8, 13,  4,  9,  3>>,
    <<11,  6, 15, 10, 16>>,
    <<12,  7, 16, 11, 17>>,
    <<10,  5, 19, 14, 15>>,
    <<13,  8, 17, 12, 18>>,
    <<14,  9, 18, 13, 19>>,
    <<15, 19, 17, 18, 16>>
>>

NEIGHBORS == <<
    <<   0,    1,    5,    2,    4,    3,    8>>,
    <<   1,    7,    6,    9,    0,    3,    2>>,
    <<   2,    6,   10,   11,    0,    1,    5>>,
    <<   3,   13,    1,    7,    4,   12,    0>>,
    <<   4, \hff,   15,    8,    3,    0,   12>>,
    <<   5,    2,   18,   10,    8,    0,   16>>,
    <<   6,   14,   11,   17,    1,    9,    2>>,
    <<   7,   21,    9,   19,    3,   13,    1>>,
    <<   8,    5,   22,   16,    4,    0,   15>>,
    <<   9,   19,   14,   20,    1,    7,    6>>,
    <<  10,   11,   24,   23,    5,    2,   18>>,
    <<  11,   17,   23,   25,    2,    6,   10>>,
    <<  12,   28,   13,   26,    4,   15,    3>>,
    <<  13,   26,   21,   29,    3,   12,    7>>,
    <<  14, \hff,   17,   27,    9,   20,    6>>,
    <<  15,   22,   28,   31,    4,    8,   12>>,
    <<  16,   18,   33,   30,    8,    5,   22>>,
    <<  17,   11,   14,    6,   35,   25,   27>>,
    <<  18,   24,   30,   32,    5,   10,   16>>,
    <<  19,   34,   20,   36,    7,   21,    9>>,
    <<  20,   14,   19,    9,   40,   27,   36>>,
    <<  21,   38,   19,   34,   13,   29,    7>>,
    <<  22,   16,   41,   33,   15,    8,   31>>,
    <<  23,   24,   11,   10,   39,   37,   25>>,
    <<  24, \hff,   32,   37,   10,   23,   18>>,
    <<  25,   23,   17,   11,   45,   39,   35>>,
    <<  26,   42,   29,   43,   12,   28,   13>>,
    <<  27,   40,   35,   46,   14,   20,   17>>,
    <<  28,   31,   42,   44,   12,   15,   26>>,
    <<  29,   43,   38,   47,   13,   26,   21>>,
    <<  30,   32,   48,   50,   16,   18,   33>>,
    <<  31,   41,   44,   53,   15,   22,   28>>,
    <<  32,   30,   24,   18,   52,   50,   37>>,
    <<  33,   30,   49,   48,   22,   16,   41>>,
    <<  34,   19,   38,   21,   54,   36,   51>>,
    <<  35,   46,   45,   56,   17,   27,   25>>,
    <<  36,   20,   34,   19,   55,   40,   54>>,
    <<  37,   39,   52,   57,   24,   23,   32>>,
    <<  38, \hff,   34,   51,   29,   47,   21>>,
    <<  39,   37,   25,   23,   59,   57,   45>>,
    <<  40,   27,   36,   20,   60,   46,   55>>,
    <<  41,   49,   53,   61,   22,   33,   31>>,
    <<  42,   58,   43,   62,   28,   44,   26>>,
    <<  43,   62,   47,   64,   26,   42,   29>>,
    <<  44,   53,   58,   65,   28,   31,   42>>,
    <<  45,   39,   35,   25,   63,   59,   56>>,
    <<  46,   60,   56,   68,   27,   40,   35>>,
    <<  47,   38,   43,   29,   69,   51,   64>>,
    <<  48,   49,   30,   33,   67,   66,   50>>,
    <<  49, \hff,   61,   66,   33,   48,   41>>,
    <<  50,   48,   32,   30,   70,   67,   52>>,
    <<  51,   69,   54,   71,   38,   47,   34>>,
    <<  52,   57,   70,   74,   32,   37,   50>>,
    <<  53,   61,   65,   75,   31,   41,   44>>,
    <<  54,   71,   55,   73,   34,   51,   36>>,
    <<  55,   40,   54,   36,   72,   60,   73>>,
    <<  56,   68,   63,   77,   35,   46,   45>>,
    <<  57,   59,   74,   78,   37,   39,   52>>,
    <<  58, \hff,   62,   76,   44,   65,   42>>,
    <<  59,   63,   78,   79,   39,   45,   57>>,
    <<  60,   72,   68,   80,   40,   55,   46>>,
    <<  61,   53,   49,   41,   81,   75,   66>>,
    <<  62,   43,   58,   42,   82,   64,   76>>,
    <<  63, \hff,   56,   45,   79,   59,   77>>,
    <<  64,   47,   62,   43,   84,   69,   82>>,
    <<  65,   58,   53,   44,   86,   76,   75>>,
    <<  66,   67,   81,   85,   49,   48,   61>>,
    <<  67,   66,   50,   48,   87,   85,   70>>,
    <<  68,   56,   60,   46,   90,   77,   80>>,
    <<  69,   51,   64,   47,   89,   71,   84>>,
    <<  70,   67,   52,   50,   83,   87,   74>>,
    <<  71,   89,   73,   91,   51,   69,   54>>,
    <<  72, \hff,   73,   55,   80,   60,   88>>,
    <<  73,   91,   72,   88,   54,   71,   55>>,
    <<  74,   78,   83,   92,   52,   57,   70>>,
    <<  75,   65,   61,   53,   94,   86,   81>>,
    <<  76,   86,   82,   96,   58,   65,   62>>,
    <<  77,   63,   68,   56,   93,   79,   90>>,
    <<  78,   74,   59,   57,   95,   92,   79>>,
    <<  79,   78,   63,   59,   93,   95,   77>>,
    <<  80,   68,   72,   60,   99,   90,   88>>,
    <<  81,   85,   94,  101,   61,   66,   75>>,
    <<  82,   96,   84,   98,   62,   76,   64>>,
    <<  83, \hff,   74,   70,  100,   87,   92>>,
    <<  84,   69,   82,   64,   97,   89,   98>>,
    <<  85,   87,  101,  102,   66,   67,   81>>,
    <<  86,   76,   75,   65,  104,   96,   94>>,
    <<  87,   83,  102,  100,   67,   70,   85>>,
    <<  88,   72,   91,   73,   99,   80,  105>>,
    <<  89,   97,   91,  103,   69,   84,   71>>,
    <<  90,   77,   80,   68,  106,   93,   99>>,
    <<  91,   73,   89,   71,  105,   88,  103>>,
    <<  92,   83,   78,   74,  108,  100,   95>>,
    <<  93,   79,   90,   77,  109,   95,  106>>,
    <<  94,   86,   81,   75,  107,  104,  101>>,
    <<  95,   92,   79,   78,  109,  108,   93>>,
    <<  96,  104,   98,  110,   76,   86,   82>>,
    <<  97, \hff,   98,   84,  103,   89,  111>>,
    <<  98,  110,   97,  111,   82,   96,   84>>,
    <<  99,   80,  105,   88,  106,   90,  113>>,
    << 100,  102,   83,   87,  108,  114,   92>>,
    << 101,  102,  107,  112,   81,   85,   94>>,
    << 102,  101,   87,   85,  114,  112,  100>>,
    << 103,   91,   97,   89,  116,  105,  111>>,
    << 104,  107,  110,  115,   86,   94,   96>>,
    << 105,   88,  103,   91,  113,   99,  116>>,
    << 106,   93,   99,   90,  117,  109,  113>>,
    << 107, \hff,  101,   94,  115,  104,  112>>,
    << 108,  100,   95,   92,  118,  114,  109>>,
    << 109,  108,   93,   95,  117,  118,  106>>,
    << 110,   98,  104,   96,  119,  111,  115>>,
    << 111,   97,  110,   98,  116,  103,  119>>,
    << 112,  107,  102,  101,  120,  115,  114>>,
    << 113,   99,  116,  105,  117,  106,  121>>,
    << 114,  112,  100,  102,  118,  120,  108>>,
    << 115,  110,  107,  104,  120,  119,  112>>,
    << 116,  103,  119,  111,  113,  105,  121>>,
    << 117, \hff,  109,  118,  113,  121,  106>>,
    << 118,  120,  108,  114,  117,  121,  109>>,
    << 119,  111,  115,  110,  121,  116,  120>>,
    << 120,  115,  114,  112,  121,  119,  118>>,
    << 121,  116,  120,  119,  117,  113,  118>>
>>

NEIGHBOR_60CCW_ROTS == <<
    <<   0,    5,    0,    0,    1,    5,    1>>,
    <<   0,    0,    1,    0,    1,    0,    1>>,
    <<   0,    0,    0,    0,    0,    5,    0>>,
    <<   0,    5,    0,    0,    2,    5,    1>>,
    <<   0, \hff,    1,    0,    3,    4,    2>>,
    <<   0,    0,    1,    0,    1,    0,    1>>,
    <<   0,    0,    0,    3,    5,    5,    0>>,
    <<   0,    0,    0,    0,    0,    5,    0>>,
    <<   0,    5,    0,    0,    0,    5,    1>>,
    <<   0,    0,    1,    3,    0,    0,    1>>,
    <<   0,    0,    1,    3,    0,    0,    1>>,
    <<   0,    3,    3,    3,    0,    0,    0>>,
    <<   0,    5,    0,    0,    3,    5,    1>>,
    <<   0,    0,    1,    0,    1,    0,    1>>,
    <<   0, \hff,    3,    0,    5,    2,    0>>,
    <<   0,    5,    0,    0,    4,    5,    1>>,
    <<   0,    0,    0,    0,    0,    5,    0>>,
    <<   0,    3,    3,    3,    3,    0,    3>>,
    <<   0,    0,    0,    3,    5,    5,    0>>,
    <<   0,    3,    3,    3,    0,    0,    0>>,
    <<   0,    3,    3,    3,    0,    3,    0>>,
    <<   0,    0,    0,    3,    5,    5,    0>>,
    <<   0,    0,    1,    0,    1,    0,    1>>,
    <<   0,    3,    3,    3,    0,    3,    0>>,
    <<   0, \hff,    3,    0,    5,    2,    0>>,
    <<   0,    0,    0,    3,    0,    0,    3>>,
    <<   0,    0,    0,    0,    0,    5,    0>>,
    <<   0,    3,    0,    0,    0,    3,    3>>,
    <<   0,    0,    1,    0,    1,    0,    1>>,
    <<   0,    0,    1,    3,    0,    0,    1>>,
    <<   0,    3,    3,    3,    0,    0,    0>>,
    <<   0,    0,    0,    0,    0,    5,    0>>,
    <<   0,    3,    3,    3,    3,    0,    3>>,
    <<   0,    0,    1,    3,    0,    0,    1>>,
    <<   0,    3,    3,    3,    3,    0,    3>>,
    <<   0,    0,    3,    0,    3,    0,    3>>,
    <<   0,    0,    0,    3,    0,    0,    3>>,
    <<   0,    3,    0,    0,    0,    3,    3>>,
    <<   0, \hff,    3,    0,    5,    2,    0>>,
    <<   0,    3,    0,    0,    3,    3,    0>>,
    <<   0,    3,    0,    0,    3,    3,    0>>,
    <<   0,    0,    0,    3,    5,    5,    0>>,
    <<   0,    0,    0,    3,    5,    5,    0>>,
    <<   0,    3,    3,    3,    0,    0,    0>>,
    <<   0,    0,    1,    3,    0,    0,    1>>,
    <<   0,    0,    3,    0,    0,    3,    3>>,
    <<   0,    0,    0,    3,    0,    3,    0>>,
    <<   0,    3,    3,    3,    0,    3,    0>>,
    <<   0,    3,    3,    3,    0,    3,    0>>,
    <<   0, \hff,    3,    0,    5,    2,    0>>,
    <<   0,    0,    0,    3,    0,    0,    3>>,
    <<   0,    3,    0,    0,    0,    3,    3>>,
    <<   0,    0,    3,    0,    3,    0,    3>>,
    <<   0,    3,    3,    3,    0,    0,    0>>,
    <<   0,    0,    3,    0,    3,    0,    3>>,
    <<   0,    0,    3,    0,    0,    3,    3>>,
    <<   0,    3,    3,    3,    0,    0,    3>>,
    <<   0,    0,    0,    3,    0,    3,    0>>,
    <<   0, \hff,    3,    0,    5,    2,    0>>,
    <<   0,    3,    3,    3,    3,    3,    0>>,
    <<   0,    3,    3,    3,    3,    3,    0>>,
    <<   0,    3,    3,    3,    3,    0,    3>>,
    <<   0,    3,    3,    3,    3,    0,    3>>,
    <<   0, \hff,    3,    0,    5,    2,    0>>,
    <<   0,    0,    0,    3,    0,    0,    3>>,
    <<   0,    3,    3,    3,    0,    3,    0>>,
    <<   0,    3,    0,    0,    0,    3,    3>>,
    <<   0,    3,    0,    0,    3,    3,    0>>,
    <<   0,    3,    3,    3,    0,    0,    0>>,
    <<   0,    3,    0,    0,    3,    3,    0>>,
    <<   0,    0,    3,    0,    0,    3,    3>>,
    <<   0,    0,    0,    3,    0,    3,    0>>,
    <<   0, \hff,    3,    0,    5,    2,    0>>,
    <<   0,    3,    3,    3,    0,    0,    3>>,
    <<   0,    3,    3,    3,    0,    0,    3>>,
    <<   0,    0,    0,    3,    0,    0,    3>>,
    <<   0,    3,    0,    0,    0,    3,    3>>,
    <<   0,    0,    0,    3,    0,    5,    0>>,
    <<   0,    3,    3,    3,    0,    0,    0>>,
    <<   0,    0,    1,    3,    1,    0,    1>>,
    <<   0,    0,    1,    3,    1,    0,    1>>,
    <<   0,    0,    3,    0,    3,    0,    3>>,
    <<   0,    0,    3,    0,    3,    0,    3>>,
    <<   0, \hff,    3,    0,    5,    2,    0>>,
    <<   0,    0,    3,    0,    0,    3,    3>>,
    <<   0,    0,    0,    3,    0,    3,    0>>,
    <<   0,    3,    0,    0,    3,    3,    0>>,
    <<   0,    3,    3,    3,    3,    3,    0>>,
    <<   0,    0,    0,    3,    0,    5,    0>>,
    <<   0,    3,    3,    3,    3,    3,    0>>,
    <<   0,    0,    0,    0,    0,    0,    1>>,
    <<   0,    3,    3,    3,    0,    0,    0>>,
    <<   0,    0,    0,    3,    0,    5,    0>>,
    <<   0,    5,    0,    0,    5,    5,    0>>,
    <<   0,    0,    3,    0,    0,    3,    3>>,
    <<   0,    0,    0,    0,    0,    0,    1>>,
    <<   0,    0,    0,    3,    0,    3,    0>>,
    <<   0, \hff,    3,    0,    5,    2,    0>>,
    <<   0,    3,    3,    3,    0,    0,    3>>,
    <<   0,    5,    0,    0,    5,    5,    0>>,
    <<   0,    0,    1,    3,    1,    0,    1>>,
    <<   0,    3,    3,    3,    0,    0,    3>>,
    <<   0,    3,    3,    3,    0,    0,    0>>,
    <<   0,    0,    1,    3,    1,    0,    1>>,
    <<   0,    3,    3,    3,    3,    3,    0>>,
    <<   0,    0,    0,    0,    0,    0,    1>>,
    <<   0,    0,    1,    0,    3,    5,    1>>,
    <<   0, \hff,    3,    0,    5,    2,    0>>,
    <<   0,    5,    0,    0,    5,    5,    0>>,
    <<   0,    0,    1,    0,    4,    5,    1>>,
    <<   0,    3,    3,    3,    0,    0,    0>>,
    <<   0,    0,    0,    3,    0,    5,    0>>,
    <<   0,    0,    0,    3,    0,    5,    0>>,
    <<   0,    0,    1,    0,    2,    5,    1>>,
    <<   0,    0,    0,    0,    0,    0,    1>>,
    <<   0,    0,    1,    3,    1,    0,    1>>,
    <<   0,    5,    0,    0,    5,    5,    0>>,
    <<   0, \hff,    1,    0,    3,    4,    2>>,
    <<   0,    0,    1,    0,    0,    5,    1>>,
    <<   0,    0,    0,    0,    0,    0,    1>>,
    <<   0,    5,    0,    0,    5,    5,    0>>,
    <<   0,    0,    1,    0,    1,    5,    1>>
>>

-----------------------------------------------------------------------------
(* Operations of BaseCell *)

\* variant: the bound compared with >= (121 rejected)
try_from_off_by_one(value) ==
    IF value >= MAX
    THEN Err([value |-> value, reason |-> "out of range"])
    ELSE Ok(Self(value))

try_from(value) ==
    IF value > MAX
    THEN Err([value |-> value, reason |-> "out of range"])
    ELSE Ok(Self(value))

new_unchecked(value) ==
    IF debug_assertions /\ ~(value <= MAX)
    THEN Panic("base cell out of range")
    ELSE Ret(Self(value))

\* (0..Self::count()), the range under the map of iter()
iter == [start |-> 0, end |-> count]

\* Range<u8>::next, then the map's Self::new_unchecked
iter_next(r) ==
    IF r.start < r.end
    THEN [range |-> [r EXCEPT !.start = r.start + 1],
          item |-> IF new_unchecked(r.start).tag = "Panic"
                   THEN new_unchecked(r.start)
                   ELSE Some(new_unchecked(r.start).val)]
    ELSE [range |-> r, item |-> None]

\* variant: the mask bit numbered from 1
is_pentagon_shift_slip(self) ==
    And_U128(BASE_PENTAGONS, Shl1_U128(self.v0 + 1)) # ZERO_U128

is_pentagon(self) ==
    And_U128(BASE_PENTAGONS, Shl1_U128(self.v0)) # ZERO_U128

\* variant: the table indexed from 1
Metadata_one_based(self) == METADATA[((usize_from(self) + 1) % 122) + 1]

Metadata(self) == METADATA[usize_from(self) + 1]

\* variant: a missing pair counted as a match
is_cw_offset_default_true(self, face) ==
    LET m == Metadata(self).cw_offset_pent
    IN  IF m.tag = "Some" THEN m.val[1] = face \/ m.val[2] = face ELSE TRUE

\* variant: only the first face of the pair compared
is_cw_offset_first_only(self, face) ==
    LET m == Metadata(self).cw_offset_pent
    IN  IF m.tag = "Some" THEN m.val[1] = face ELSE FALSE

is_cw_offset(self, face) ==
    LET m == Metadata(self).cw_offset_pent
    IN  IF m.tag = "Some" THEN m.val[1] = face \/ m.val[2] = face ELSE FALSE

\* variant: the faces numbered from 1
rotation_count_one_based(self, face) ==
    LET shift == (face + 1) * 3
        rotation == ShrAnd7_U64(BASE_CELL_ROTATIONS[usize_from(self) + 1], shift)
    IN  IF debug_assertions /\ rotation = 7
        THEN Panic("no cell on face")
        ELSE Ret(rotation)

\* variant: the shift not scaled to the 3-bit field width
rotation_count_unscaled(self, face) ==
    LET shift == face
        rotation == ShrAnd7_U64(BASE_CELL_ROTATIONS[usize_from(self) + 1], shift)
    IN  IF debug_assertions /\ rotation = 7
        THEN Panic("no cell on face")
        ELSE Ret(rotation)

rotation_count(self, face) ==
    LET shift == face * 3
        rotation == ShrAnd7_U64(BASE_CELL_ROTATIONS[usize_from(self) + 1], shift)
    IN  IF debug_assertions /\ rotation = 7
        THEN Panic("no cell on face")
        ELSE Ret(rotation)

\* variant: the mask taken up to and including the cell's own bit
pentagon_index_inclusive(self) ==
    LET mask == Sub1_U128(Shl1_U128(self.v0 + 1))
    IN  count_ones(And_U128(BASE_PENTAGONS, mask))

\* variant: the mask left as the single bit 1 << self.0
pentagon_index_no_decrement(self) ==
    LET mask == Shl1_U128(self.v0)
    IN  count_ones(And_U128(BASE_PENTAGONS, mask))

\* the row of pentagon_direction_faces: the pentagon bits below the cell
pentagon_index(self) ==
    LET mask == Sub1_U128(Shl1_U128(self.v0))
    IN  count_ones(And_U128(BASE_PENTAGONS, mask))

\* variant: the precondition not asserted
pentagon_direction_faces_no_assert(self) ==
    LET index == pentagon_index(self)
    IN  IF index >= Len(PENTAGON_DIRECTION_FACES)
        THEN Panic("index out of bounds")
        ELSE Ret(PENTAGON_DIRECTION_FACES[index + 1])

pentagon_direction_faces(self) ==
    IF debug_assertions /\ ~is_pentagon(self)
    THEN Panic("not a pentagon")
    ELSE LET index == pentagon_index(self)
         IN  IF index >= Len(PENTAGON_DIRECTION_FACES)
             THEN Panic("index out of bounds")
             ELSE Ret(PENTAGON_DIRECTION_FACES[index + 1])

\* variant: the two comparisons joined with &&
is_polar_pentagon_and(self) == self.v0 = 4 /\ self.v0 = 117

is_polar_pentagon(self) == self.v0 = 4 \/ self.v0 = 117

\* variant: the table entry wrapped without validation
neighbor_unchecked(self, direction) ==
    Some(Self(NEIGHBORS[usize_from(self) + 1][direction + 1]))

\* variant: the table entry validated with >= MAX
neighbor_excl_max(self, direction) ==
    LET value == NEIGHBORS[usize_from(self) + 1][direction + 1]
    IN  IF value >= MAX THEN None ELSE Some(Self(value))

neighbor(self, direction) ==
    LET value == NEIGHBORS[usize_from(self) + 1][direction + 1]
    IN  ok(try_from(value))

\* variant: the column taken one to the right (1-based direction)
neighbor_rotation_col_slip(self, direction) ==
    LET base == usize_from(self)
        to == (direction + 1) % NUM_DIRECTIONS
    IN  IF debug_assertions /\ NEIGHBOR_60CCW_ROTS[base + 1][to + 1] = 255
        THEN Panic("assertion failed: left != right")
        ELSE Ret(NEIGHBOR_60CCW_ROTS[base + 1][to + 1])

\* variant: the count read from the neighbour table
neighbor_rotation_wrong_table(self, direction) ==
    LET base == usize_from(self)
        to == direction
    IN  IF debug_assertions /\ NEIGHBORS[base + 1][to + 1] = 255
        THEN Panic("assertion failed: left != right")
        ELSE Ret(NEIGHBORS[base + 1][to + 1])

neighbor_rotation(self, direction) ==
    LET base == usize_from(self)
        to == direction
    IN  IF debug_assertions /\ NEIGHBOR_60CCW_ROTS[base + 1][to + 1] = 255
        THEN Panic("assertion failed: left != right")
        ELSE Ret(NEIGHBOR_60CCW_ROTS[base + 1][to + 1])

\* variant: the position reported 1-based
direction_one_based(self, nb) ==
    LET row == NEIGHBORS[usize_from(self) + 1]
        hits == {i \in 1..Len(row) : u8_from(nb) = row[i]}
    IN  IF hits = {} THEN None
        ELSE Some(CHOOSE i \in hits : \A j \in hits : i <= j)

\* Iterator::position over the row, then Direction::new_unchecked(dir as u8)
direction(self, nb) ==
    LET row == NEIGHBORS[usize_from(self) + 1]
        hits == {i \in 0..(Len(row) - 1) : u8_from(nb) = row[i + 1]}
    IN  IF hits = {} THEN None
        ELSE Some(CHOOSE i \in hits : \A j \in hits : i <= j)

\* impl From<BaseCell> for FaceIJK
face_ijk_from(value) ==
    [face |-> Metadata(value).home, coord |-> Metadata(value).coord]

-----------------------------------------------------------------------------
(* The caller *)

Idle == [op |-> "none", arg |-> None, ret |-> None]

BaseCells == {Self(v) : v \in 0..MAX}

Init ==
    /\ debug_assertions \in BOOLEAN
    /\ cell = None
    /\ pc = "ready"
    /\ call = Idle
    /\ range = None
    /\ collected = <<>>

Finish(op, arg, ret) ==
    /\ call' = [op |-> op, arg |-> arg, ret |-> ret]
    /\ pc' = IF ret.tag = "Panic" THEN "panicked" ELSE "returned"

TryFrom(value) ==
    /\ pc = "ready"
    /\ Finish("try_from", Ret(value), try_from(value))
    /\ cell' = ok(try_from(value))
    /\ UNCHANGED <<debug_assertions, range, collected>>

U8From ==
    /\ pc = "ready" /\ cell # None
    /\ Finish("u8_from", None, Ret(u8_from(cell.val)))
    /\ UNCHANGED <<debug_assertions, cell, range, collected>>

IsPentagon ==
    /\ pc = "ready" /\ cell # None
    /\ Finish("is_pentagon", None, Ret(is_pentagon(cell.val)))
    /\ UNCHANGED <<debug_assertions, cell, range, collected>>

IsPolarPentagon ==
    /\ pc = "ready" /\ cell # None
    /\ Finish("is_polar_pentagon", None, Ret(is_polar_pentagon(cell.val)))
    /\ UNCHANGED <<debug_assertions, cell, range, collected>>

RotationCount(face) ==
    /\ pc = "ready" /\ cell # None
    /\ Finish("rotation_count", Ret(face), rotation_count(cell.val, face))
    /\ UNCHANGED <<debug_assertions, cell, range, collected>>

Neighbor(d) ==
    /\ pc = "ready" /\ cell # None
    /\ Finish("neighbor", Ret(d), neighbor(cell.val, d))
    /\ UNCHANGED <<debug_assertions, cell, range, collected>>

NeighborRotation(d) ==
    /\ pc = "ready" /\ cell # None
    /\ Finish("neighbor_rotation", Ret(d), neighbor_rotation(cell.val, d))
    /\ UNCHANGED <<debug_assertions, cell, range, collected>>

IsCwOffset(face) ==
    /\ pc = "ready" /\ cell # None
    /\ Finish("is_cw_offset", Ret(face), Ret(is_cw_offset(cell.val, face)))
    /\ UNCHANGED <<debug_assertions, cell, range, collected>>

FaceIJKFrom ==
    /\ pc = "ready" /\ cell # None
    /\ Finish("face_ijk_from", None, Ret(face_ijk_from(cell.val)))
    /\ UNCHANGED <<debug_assertions, cell, range, collected>>

PentagonDirectionFaces ==
    /\ pc = "ready" /\ cell # None
    /\ Finish("pentagon_direction_faces", None, pentagon_direction_faces(cell.val))
    /\ UNCHANGED <<debug_assertions, cell, range, collected>>

DirectionTo(nb) ==
    /\ pc = "ready" /\ cell # None
    /\ Finish("direction", Ret(nb), direction(cell.val, nb))
    /\ UNCHANGED <<debug_assertions, cell, range, collected>>

\* the caller takes the result and goes on; a panic ends it
Continue ==
    /\ pc = "returned"
    /\ pc' = "ready"
    /\ call' = Idle
    /\ UNCHANGED <<debug_assertions, cell, range, collected>>

Next ==
    \/ \E value \in U8 : TryFrom(value)
    \/ U8From
    \/ IsPentagon
    \/ IsPolarPentagon
    \/ \E face \in Faces : RotationCount(face)
    \/ \E d \in Directions : Neighbor(d)
    \/ \E d \in Directions : NeighborRotation(d)
    \/ \E nb \in BaseCells : DirectionTo(nb)
    \/ \E face \in Faces : IsCwOffset(face)
    \/ FaceIJKFrom
    \/ PentagonDirectionFaces
    \/ Continue

Spec == Init /\ [][Next]_vars

\* BaseCell::iter(): a fresh iterator, whatever the caller held before
Iter ==
    /\ pc = "ready"
    /\ Finish("iter", None, Ret(iter))
    /\ range' = Some(iter)
    /\ collected' = <<>>
    /\ UNCHANGED <<debug_assertions, cell>>

\* one step of collect(): next() on the iterator held
IterNext ==
    /\ pc = "ready" /\ range # None
    /\ Finish("next", None, iter_next(range.val).item)
    /\ range' = Some(iter_next(range.val).range)
    /\ collected' = IF iter_next(range.val).item.tag = "Some"
                     THEN Append(collected, iter_next(range.val).item.val)
                     ELSE collected
    /\ UNCHANGED <<debug_assertions, cell>>

NextIter ==
    \/ Iter
    \/ IterNext
    \/ Continue

SpecIter == Init /\ [][NextIter]_vars

-----------------------------------------------------------------------------
(* Properties *)

Calls(op) == pc # "ready" /\ call.op = op

\* C1: try_from(v) returns the out-of-range error carrying v exactly when
\* v > 121; for every v in 0..=121 it returns Ok with a cell whose u8
\* conversion is v again (121 succeeds, 122 fails).
C1_TryFromRange ==
    Calls("try_from") =>
        LET v == call.arg.val
            r == call.ret
        IN  /\ (r.tag = "Err") <=> (v > 121)
            /\ (r.tag = "Ok") <=> (v \in 0..121)
            /\ r.tag = "Err" => r.err = [value |-> v, reason |-> "out of range"]
            /\ r.tag = "Ok" => u8_from(r.val) = v /\ cell = Some(r.val)
            /\ r.tag = "Err" => cell = None

C1_Witness ==
    /\ Calls("try_from")
    /\ call.arg.val = 122
    /\ call.ret = Err([value |-> 122, reason |-> "out of range"])

\* C2: neighbor(c, d) is None if and only if c is a pentagon and d is K; so
\* a pentagon has exactly one direction without a neighbor and a hexagon
\* has a neighbor in every direction.
C2_NoNeighborIffPentagonK ==
    Calls("neighbor") =>
        LET c == cell.val
            d == call.arg.val
        IN  /\ (call.ret = None) <=> (is_pentagon(c) /\ d = K)
            /\ call.ret # None => call.ret.val \in BaseCells
            /\ Cardinality({e \in Directions : neighbor(c, e) = None})
                   = IF is_pentagon(c) THEN 1 ELSE 0

C2_Witness ==
    /\ Calls("neighbor")
    /\ is_pentagon(cell.val)
    /\ call.arg.val = K
    /\ call.ret = None
\* The direction opposite to a non-center direction: K<->IJ, J<->IK, JK<->I.
Opposite(d) == NUM_DIRECTIONS - d

\* the directions of b that lead to a
Back(b, a) == {e \in Directions : neighbor(b, e) = Some(a)}

\* C3 as stated: for every non-center direction D with A.neighbor(D) = B,
\* B's neighbor in the direction opposite to D is A.
C3_OppositeAlways ==
    (Calls("neighbor") /\ call.arg.val # Center /\ call.ret # None) =>
        neighbor(call.ret.val, Opposite(call.arg.val)) = cell

\* C3 as amended: for every non-center direction D with A.neighbor(D) = B,
\* exactly one direction D' of B leads back to A, it is not Center, and it
\* is the direction opposite to D exactly when A.neighbor_rotation(D) = 0.
C3_OppositeIffNoRotation ==
    (Calls("neighbor") /\ call.arg.val # Center /\ call.ret # None) =>
        LET a == cell.val
            d == call.arg.val
            b == call.ret.val
        IN  /\ Cardinality(Back(b, a)) = 1
            /\ Center \notin Back(b, a)
            /\ (Opposite(d) \in Back(b, a)) <=> (neighbor_rotation(a, d) = Ret(0))

\* a step whose way back is not the opposite direction
C3_Witness ==
    /\ Calls("neighbor") /\ call.arg.val # Center /\ call.ret # None
    /\ neighbor_rotation(cell.val, call.arg.val) # Ret(0)
    /\ neighbor(call.ret.val, Opposite(call.arg.val)) # cell
    /\ Back(call.ret.val, cell.val) # {}

\* C4: adjacency is symmetric: whenever A.neighbor(D) yields B, some
\* direction D' has B.neighbor(D') = A.
C4_AdjacencySymmetric ==
    (Calls("neighbor") /\ call.ret # None) =>
        \E e \in Directions : neighbor(call.ret.val, e) = cell

C4_Witness ==
    /\ Calls("neighbor") /\ call.ret # None
    /\ call.ret # cell
    /\ is_pentagon(call.ret.val)
    /\ \E e \in Directions : neighbor(call.ret.val, e) = cell
\* The sum of the two rotation counts of a step from a to b (direction d)
\* and of a way back (direction e).
RoundTrip(a, d, b, e) ==
    (neighbor_rotation(a, d).val + neighbor_rotation(b, e).val) % 6

\* C5 as stated: for A.neighbor(D) = B and B.neighbor(D') = A, the sum
\* A.neighbor_rotation(D) + B.neighbor_rotation(D') is 0 modulo 6.
C5_RoundTripZero ==
    (Calls("neighbor_rotation") /\ neighbor(cell.val, call.arg.val) # None) =>
        LET a == cell.val
            d == call.arg.val
            b == neighbor(a, d).val
        IN  \A e \in Back(b, a) :
                (call.ret.val + neighbor_rotation(b, e).val) % 6 = 0

\* An edge of pentagon p, leaving it in direction d, on which the round
\* trip loses one rotation: the IK edge of a non-polar pentagon, and the
\* J, I, IK and IJ edges of a polar one.
SkewedEdge(p, d) ==
    IF is_polar_pentagon(p) THEN d \in {J, I, IK, IJ} ELSE d = IK

\* C5 as amended: for A.neighbor(D) = B and B.neighbor(D') = A the sum of
\* the two rotation counts is 0 modulo 6 whenever neither A nor B is a
\* pentagon; when one of them is a pentagon the sum is 5 modulo 6 on the
\* skewed edges of that pentagon and 0 modulo 6 on its other edges.
C5_RoundTripZeroUnlessPentagon ==
    (Calls("neighbor_rotation") /\ neighbor(cell.val, call.arg.val) # None) =>
        LET a == cell.val
            d == call.arg.val
            b == neighbor(a, d).val
        IN  /\ call.ret.tag = "Ret"
            /\ Back(b, a) # {}
            /\ \A e \in Back(b, a) :
                 RoundTrip(a, d, b, e) =
                   IF is_pentagon(a) /\ SkewedEdge(a, d) THEN 5
                   ELSE IF is_pentagon(b) /\ SkewedEdge(b, e) THEN 5
                   ELSE 0

\* a hexagon-to-hexagon step with non-zero counts that cancel
C5_Witness ==
    /\ Calls("neighbor_rotation") /\ neighbor(cell.val, call.arg.val) # None
    /\ call.ret.tag = "Ret" /\ call.ret.val \in 1..5
    /\ ~is_pentagon(cell.val)
    /\ ~is_pentagon(neighbor(cell.val, call.arg.val).val)
    /\ \E e \in Back(neighbor(cell.val, call.arg.val).val, cell.val) :
           RoundTrip(cell.val, call.arg.val,
                     neighbor(cell.val, call.arg.val).val, e) = 0

\* C6: direction is the exact inverse of neighbor: A.direction(B) = Some(D)
\* if and only if A.neighbor(D) = Some(B); the 7 entries of A's row are
\* pairwise distinct; A.direction(B) = None exactly when B is in no
\* direction of A; and A.direction(A) = Some(Center).
C6_DirectionInvertsNeighbor ==
    Calls("direction") =>
        LET a == cell.val
            b == call.arg.val
        IN  /\ \A d \in Directions :
                 (call.ret = Some(d)) <=> (neighbor(a, d) = Some(b))
            /\ \A d, e \in Directions :
                 d # e => neighbor(a, d) # neighbor(a, e)
            /\ (call.ret = None) <=> (\A d \in Directions : neighbor(a, d) # Some(b))
            /\ b = a => call.ret = Some(Center)

C6_Witness ==
    /\ Calls("direction")
    /\ call.ret.tag = "Some" /\ call.ret.val = IJ
    /\ neighbor(cell.val, IJ) = Some(call.arg.val)
\* the 3-bit field of cell c for face f in the rotation table
Field(c, f) ==
    LET w == BASE_CELL_ROTATIONS[c.v0 + 1]
    IN  w[Len(w) - f]

\* C7 as stated: rotation_count(c, f) either returns a value in [0, 5] or
\* trips the no-presence assertion (field = 0b111); it never returns 6 or 7,
\* and on the home face of c it returns a value in [0, 5] without faulting.
C7_RotationOrAssertion ==
    Calls("rotation_count") =>
        LET c == cell.val
            f == call.arg.val
        IN  /\ \/ call.ret.tag = "Ret" /\ call.ret.val \in 0..5
               \/ call.ret.tag = "Panic" /\ Field(c, f) = 7
            /\ f = Metadata(c).home => call.ret.tag = "Ret" /\ call.ret.val \in 0..5

\* C7 as amended: with debug assertions compiled in, rotation_count(c, f)
\* either returns a value in [0, 5] or trips the no-presence assertion,
\* exactly when the field is 0b111; with debug assertions compiled out it
\* never faults and returns 7 for a face without presence.  In neither
\* build does it return 6, and on the home face of c it returns a value in
\* [0, 5] without faulting.
C7_RotationOrAssertionInDebug ==
    Calls("rotation_count") =>
        LET c == cell.val
            f == call.arg.val
        IN  /\ (call.ret.tag = "Panic") <=> (debug_assertions /\ Field(c, f) = 7)
            /\ call.ret.tag \in {"Ret", "Panic"}
            /\ call.ret.tag = "Ret" => call.ret.val = Field(c, f)
            /\ call.ret.tag = "Ret" => call.ret.val \in (0..5) \cup {7}
            /\ (call.ret.tag = "Ret" /\ debug_assertions) => call.ret.val \in 0..5
            /\ f = Metadata(c).home => call.ret.tag = "Ret" /\ call.ret.val \in 0..5

\* the assertion trips on a face without presence
C7_Witness ==
    /\ Calls("rotation_count")
    /\ debug_assertions
    /\ call.arg.val # Metadata(cell.val).home
    /\ Field(cell.val, call.arg.val) = 7
    /\ call.ret.tag = "Panic"
    /\ pc = "panicked"

\* C8 as stated: NEIGHBOR_60CCW_ROTS[c][d] is 0xff exactly when
\* NEIGHBORS[c][d] is 0xff and is otherwise in [0, 5]; neighbor_rotation(c, d)
\* returns a count in [0, 5] whenever neighbor(c, d) exists and trips its
\* assertion exactly when the neighbor does not exist.
C8_RotationOrAssertion ==
    Calls("neighbor_rotation") =>
        LET c == cell.val
            d == call.arg.val
        IN  /\ (NEIGHBOR_60CCW_ROTS[c.v0 + 1][d + 1] = 255)
                   <=> (NEIGHBORS[c.v0 + 1][d + 1] = 255)
            /\ neighbor(c, d) # None => call.ret.tag = "Ret" /\ call.ret.val \in 0..5
            /\ (call.ret.tag = "Panic") <=> (neighbor(c, d) = None)

\* C8 as amended: NEIGHBOR_60CCW_ROTS[c][d] is 0xff exactly when
\* NEIGHBORS[c][d] is 0xff and is otherwise in [0, 5]; neighbor_rotation(c, d)
\* returns a count in [0, 5] whenever neighbor(c, d) exists; when the
\* neighbor does not exist it trips its assertion with debug assertions
\* compiled in, and returns the sentinel 0xff with them compiled out.
C8_RotationOrAssertionInDebug ==
    Calls("neighbor_rotation") =>
        LET c == cell.val
            d == call.arg.val
        IN  /\ (NEIGHBOR_60CCW_ROTS[c.v0 + 1][d + 1] = 255)
                   <=> (NEIGHBORS[c.v0 + 1][d + 1] = 255)
            /\ NEIGHBOR_60CCW_ROTS[c.v0 + 1][d + 1] \in (0..5) \cup {255}
            /\ neighbor(c, d) # None => call.ret.tag = "Ret" /\ call.ret.val \in 0..5
            /\ (call.ret.tag = "Panic") <=> (debug_assertions /\ neighbor(c, d) = None)
            /\ (~debug_assertions /\ neighbor(c, d) = None) => call.ret = Ret(255)

C8_Witness ==
    /\ Calls("neighbor_rotation")
    /\ debug_assertions
    /\ neighbor(cell.val, call.arg.val) = None
    /\ call.ret.tag = "Panic"
    /\ pc = "panicked"

\* C9: among the 122 base cells exactly 12 satisfy is_pentagon(), which is
\* the test of the BASE_PENTAGONS bit at position = cell value; base cell 4
\* is a pentagon and base cell 8 is not.
C9_TwelvePentagons ==
    Calls("is_pentagon") =>
        LET v == cell.val.v0
        IN  /\ Cardinality(BaseCells) = 122
            /\ Cardinality({c \in BaseCells : is_pentagon(c)}) = 12
            /\ call.ret.val = (Bit(BASE_PENTAGONS[8 - (v \div 16)], v % 16) = 1)
            /\ v = 4 => call.ret = Ret(TRUE)
            /\ v = 8 => call.ret = Ret(FALSE)

C9_Witness ==
    /\ Calls("is_pentagon")
    /\ cell.val.v0 = 4
    /\ call.ret = Ret(TRUE)

\* C10: is_polar_pentagon() is true for exactly base cells 4 and 117 and
\* false for the 120 others, including the other 10 pentagons; every cell
\* for which it holds also satisfies is_pentagon().
C10_PolarPentagons ==
    Calls("is_polar_pentagon") =>
        LET c == cell.val
        IN  /\ call.ret.val = (c.v0 \in {4, 117})
            /\ call.ret.val => is_pentagon(c)
            /\ Cardinality({b \in BaseCells : ~is_polar_pentagon(b)}) = 120
            /\ Cardinality({b \in BaseCells :
                              is_pentagon(b) /\ ~is_polar_pentagon(b)}) = 10

C10_Witness ==
    /\ Calls("is_polar_pentagon")
    /\ cell.val.v0 = 117
    /\ call.ret = Ret(TRUE)
    /\ is_pentagon(cell.val)
\* C11: BaseCell::iter() yields exactly count() = 122 values, pairwise
\* distinct, in ascending numeric order 0, 1, ..., 121, every one a valid
\* base cell (<= MAX); each fresh call restarts from 0.
C11_IterAllAscending ==
    /\ \A i \in 1..Len(collected) : collected[i] = Self(i - 1)
    /\ \A i, j \in 1..Len(collected) : i # j => collected[i] # collected[j]
    /\ \A i \in 1..Len(collected) : u8_from(collected[i]) <= 121
    /\ Calls("iter") => range = Some([start |-> 0, end |-> 122]) /\ collected = <<>>
    /\ (Calls("next") /\ call.ret.tag = "Some") =>
           collected # <<>> /\ call.ret.val = collected[Len(collected)]
    /\ Calls("next") => call.ret.tag \in {"Some", "None"}
    /\ (Calls("next") /\ call.ret = None) => Len(collected) = 122 /\ count = 122

\* the iterator is exhausted after 122 cells
C11_Witness ==
    /\ Calls("next")
    /\ call.ret = None
    /\ Len(collected) = 122
    /\ collected[122] = Self(121)
\* C12: for each of the 12 pentagonal base cells pentagon_direction_faces()
\* returns exactly 5 faces, each in 0..=19, with no face repeated.
C12_FiveDistinctFaces ==
    (Calls("pentagon_direction_faces") /\ is_pentagon(cell.val)) =>
        /\ call.ret.tag = "Ret"
        /\ Len(call.ret.val) = 5
        /\ \A i \in 1..5 : call.ret.val[i] \in 0..19
        /\ \A i, j \in 1..5 : i # j => call.ret.val[i] # call.ret.val[j]
        /\ Cardinality({p \in BaseCells : is_pentagon(p)}) = 12

C12_Witness ==
    /\ Calls("pentagon_direction_faces")
    /\ cell.val.v0 = 117
    /\ is_pentagon(cell.val)
    /\ call.ret = Ret(<<15, 19, 17, 18, 16>>)

\* C13 as stated: on every one of the 110 hexagonal cells
\* pentagon_direction_faces() halts on the "not a pentagon" assertion and
\* never returns a face list.
C13_HexagonAlwaysFaults ==
    (Calls("pentagon_direction_faces") /\ ~is_pentagon(cell.val)) =>
        call.ret = Panic("not a pentagon")

\* the pentagons above cell c
PentagonsAbove(c) == {p \in BaseCells : is_pentagon(p) /\ p.v0 > c.v0}

\* C13 as amended: on every one of the 110 hexagonal cells
\* pentagon_direction_faces() halts on the "not a pentagon" assertion in a
\* build with debug assertions.  In a build without them a hexagon below
\* 117 gets the face list of the next pentagon above it, and a hexagon
\* above 117 (118..121) halts on the table's bounds check.
C13_HexagonFaultsInDebug ==
    (Calls("pentagon_direction_faces") /\ ~is_pentagon(cell.val)) =>
        LET c == cell.val
        IN  /\ Cardinality({h \in BaseCells : ~is_pentagon(h)}) = 110
            /\ debug_assertions => call.ret = Panic("not a pentagon")
            /\ (~debug_assertions /\ c.v0 < 117) =>
                   /\ call.ret.tag = "Ret"
                   /\ \E p \in PentagonsAbove(c) :
                        /\ \A q \in PentagonsAbove(c) : p.v0 <= q.v0
                        /\ call.ret = pentagon_direction_faces(p)
            /\ (~debug_assertions /\ c.v0 > 117) =>
                   call.ret = Panic("index out of bounds")

C13_Witness ==
    /\ Calls("pentagon_direction_faces")
    /\ ~is_pentagon(cell.val)
    /\ debug_assertions
    /\ call.ret = Panic("not a pentagon")
    /\ pc = "panicked"
\* the offset pair of cell c in the metadata table, or None
OffsetPair(c) == METADATA[c.v0 + 1].cw_offset_pent

\* C14: is_cw_offset(c, f) is true if and only if the metadata of c carries
\* an offset pair and f equals one of its two faces; it is false for every
\* hexagonal cell on all 20 faces, because cw_offset_pent is Some only for
\* cells that satisfy is_pentagon().
C14_CwOffsetIffInPair ==
    Calls("is_cw_offset") =>
        LET c == cell.val
            f == call.arg.val
        IN  /\ call.ret.val <=>
                   (OffsetPair(c) # None /\ f \in {OffsetPair(c).val[1], OffsetPair(c).val[2]})
            /\ ~is_pentagon(c) => call.ret = Ret(FALSE)
            /\ OffsetPair(c) # None => is_pentagon(c)

\* the second face of a pair is recognised
C14_Witness ==
    /\ Calls("is_cw_offset")
    /\ OffsetPair(cell.val) # None
    /\ call.arg.val = OffsetPair(cell.val).val[2]
    /\ call.ret = Ret(TRUE)

\* C15: for every pentagonal base cell c the row index
\* popcount(BASE_PENTAGONS & ((1 << c) - 1)) is the rank of c among the
\* pentagons in ascending order, so it lies in [0, 11], the 12 pentagons map
\* one-to-one onto the 12 rows, and the shift stays below 128 bits.
C15_IndexIsRank ==
    (Calls("pentagon_direction_faces") /\ is_pentagon(cell.val)) =>
        LET c == cell.val
            pentagons == {p \in BaseCells : is_pentagon(p)}
        IN  /\ pentagon_index(c) = Cardinality({p \in pentagons : p.v0 < c.v0})
            /\ pentagon_index(c) \in 0..11
            /\ \A p \in pentagons : p # c => pentagon_index(p) # pentagon_index(c)
            /\ {pentagon_index(p) : p \in pentagons} = 0..11
            /\ call.ret = Ret(PENTAGON_DIRECTION_FACES[pentagon_index(c) + 1])
            /\ c.v0 < 128

\* the last pentagon takes the last row
C15_Witness ==
    /\ Calls("pentagon_direction_faces")
    /\ cell.val.v0 = 117
    /\ pentagon_index(cell.val) = 11
    /\ call.ret.tag = "Ret"
\* C16: for every base cell c, rotation_count(c, home face of c) = 0.
C16_NoRotationAtHome ==
    (Calls("rotation_count") /\ call.arg.val = face_ijk_from(cell.val).face) =>
        call.ret = Ret(0)

C16_Witness ==
    /\ Calls("rotation_count")
    /\ call.arg.val = face_ijk_from(cell.val).face
    /\ call.arg.val = 19
    /\ call.ret = Ret(0)

\* the faces on which cell c has a presence (rotation field not 0b111)
Presence(c) == {f \in Faces : rotation_count(c, f) \notin {Ret(7), Panic("no cell on face")}}

\* the faces of a list
FaceSet(list) == {list[i] : i \in 1..Len(list)}

\* C17: for every pentagonal base cell c the set of faces on which c has a
\* presence is exactly the set of the 5 faces returned by
\* pentagon_direction_faces(c), and that set contains the home face of c.
C17_PresenceIsDirectionFaces ==
    (Calls("pentagon_direction_faces") /\ is_pentagon(cell.val)) =>
        /\ call.ret.tag = "Ret"
        /\ Presence(cell.val) = FaceSet(call.ret.val)
        /\ Cardinality(Presence(cell.val)) = 5
        /\ face_ijk_from(cell.val).face \in FaceSet(call.ret.val)

C17_Witness ==
    /\ Calls("pentagon_direction_faces")
    /\ cell.val.v0 = 14
    /\ call.ret = Ret(<<6, 11, 2, 7, 1>>)
    /\ Presence(cell.val) = {1, 2, 6, 7, 11}
    /\ face_ijk_from(cell.val).face = 11

\* C18: a clockwise-offset pair exists for exactly the 10 non-polar
\* pentagons; its two faces are distinct, differ from the cell's home face
\* and both belong to the list of pentagon_direction_faces() for that cell,
\* so is_cw_offset(c, f) implies that c has a presence on f.
C18_OffsetPairOfNonPolarPentagons ==
    Calls("is_cw_offset") =>
        LET c == cell.val
            f == call.arg.val
            m == Metadata(c).cw_offset_pent
        IN  /\ (m # None) <=> (is_pentagon(c) /\ ~is_polar_pentagon(c))
            /\ Cardinality({b \in BaseCells : Metadata(b).cw_offset_pent # None}) = 10
            /\ m # None =>
                   /\ m.val[1] # m.val[2]
                   /\ Metadata(c).home \notin {m.val[1], m.val[2]}
                   /\ pentagon_direction_faces(c).tag = "Ret"
                   /\ {m.val[1], m.val[2]} \subseteq FaceSet(pentagon_direction_faces(c).val)
            /\ call.ret.val => f \in Presence(c)

C18_Witness ==
    /\ Calls("is_cw_offset")
    /\ cell.val.v0 = 83
    /\ call.arg.val = 19
    /\ call.ret = Ret(TRUE)
    /\ 19 \in Presence(cell.val)

\* C19: no two distinct base cells share the same (home face, home
\* coordinate) pair, every home face is in 0..=19, and a base cell is a
\* pentagon if and only if its home coordinate is (2, 0, 0).
C19_HomeInjectiveMarksPentagons ==
    Calls("face_ijk_from") =>
        LET c == cell.val
            h == call.ret.val
        IN  /\ \A b \in BaseCells : b # c => face_ijk_from(b) # h
            /\ h.face \in 0..19
            /\ is_pentagon(c) <=> (h.coord = <<2, 0, 0>>)

C19_Witness ==
    /\ Calls("face_ijk_from")
    /\ is_pentagon(cell.val)
    /\ call.ret = Ret([face |-> 11, coord |-> <<2, 0, 0>>])

====
